---- MODULE Spec2Model ----
(***************************************************************************)
(* Model of main.py: the ModelManager cache, the two QThread workers       *)
(* (DownloaderThread, TranscriptionThread), the queued signals they emit   *)
(* to the GUI thread, and the MainWindow slots that react to the user and  *)
(* to those signals.                                                       *)
(***************************************************************************)
EXTENDS Integers, Sequences, FiniteSets, TLC

\* ------------------------------------------------------------------ bounds
NumModels == 2      \* how many entries of ALL_MODELS the user works with
MaxJobs == 2        \* QThread objects created during one process lifetime
MaxQueue == 1       \* queued signals waiting in the GUI thread's event loop
MaxTime == 23       \* seconds of wall-clock time the watchdog is followed for

\* ------------------------------------------------------------- constants
ALL_MODELS == <<"tiny", "base", "small", "medium", "large">>

Models == {ALL_MODELS[i] : i \in 1..NumModels}

None == "None"
NoModel == [w |-> None, id |-> 0]
NoPath == [stem |-> "", ext |-> ""]

\* messages carried by str(e) and by the literal at line 185
MsgInterrupted == "Trascrizione interrotta."
MsgLoadError == "load error"
MsgTranscribeError == "transcribe error"
TextResult == "text"

VARIABLES
    loaded_model,          \* ModelManager.loaded_model
    current_model_name,    \* ModelManager.current_model_name
    downloaded,            \* marker files present in the cache folder
    file_path,             \* MainWindow.file_path
    downloader_thread,     \* MainWindow.downloader_thread (index in threads, 0 = None)
    transcription_thread,  \* MainWindow.transcription_thread
    btn_download,          \* btn_download.isEnabled()
    combo_available,       \* items of combo_available
    available_index,       \* its current index (0 = no item)
    combo_downloaded,      \* items of combo_downloaded
    downloaded_index,      \* its current index
    threads,               \* every QThread created so far, oldest first
    mainQueue,             \* signals posted to the GUI thread, not yet delivered
    engineLoads,           \* number of models whisper.load_model has returned
    raced,                 \* TRUE once two load_model calls have overlapped
    now,                   \* time.time(), in seconds since the window was built
    last_progress_update,  \* MainWindow.last_progress_update
    advisories,            \* stall messages shown since the last refresh
    idle_advisory,         \* TRUE once a stall message was shown with no thread running
    last_convert           \* the last call of convert_file_if_needed and its outcome

vars == <<loaded_model, current_model_name, downloaded, file_path,
          downloader_thread, transcription_thread, btn_download,
          combo_available, available_index, combo_downloaded, downloaded_index,
          threads, mainQueue, engineLoads, raced, now, last_progress_update,
          advisories, idle_advisory, last_convert>>

cacheVars == <<loaded_model, current_model_name, engineLoads>>
watchVars == <<now, last_progress_update, advisories, idle_advisory>>
guiVars == <<downloaded, file_path, downloader_thread, transcription_thread,
             btn_download, combo_available, available_index, combo_downloaded,
             downloaded_index>>

\* ------------------------------------------------------------- utilities
RECURSIVE FilterSeq(_, _)
FilterSeq(s, S) ==
    IF s = <<>> THEN <<>>
    ELSE IF Head(s) \in S THEN <<Head(s)>> \o FilterSeq(Tail(s), S)
         ELSE FilterSeq(Tail(s), S)

ModelSeq == SubSeq(ALL_MODELS, 1, NumModels)

Range(s) == {s[i] : i \in 1..Len(s)}

IndexOf(s, x) == IF x \in Range(s) THEN CHOOSE i \in 1..Len(s) : s[i] = x ELSE 0

currentText(items, idx) == IF idx = 0 THEN "" ELSE items[idx]

\* ------------------------------------------------------------- ModelManager
is_model_downloaded(model_name) == model_name \in downloaded

mark_model_as_downloaded(model_name) == downloaded \cup {model_name}

\* line 121, first operand: self.loaded_model is not None
CacheSlotFull == loaded_model # NoModel

\* the test of line 121 without the comparison of the names
CacheNameIgnored(model_name) == TRUE

\* line 121, second operand: self.current_model_name == model_name
CacheNameMatches(model_name) == current_model_name = model_name

\* a cache-hit path that reports completion to the callback
HitProgressReported == <<100>>

\* progress values load_model reports through progress_callback on the
\* cache-hit path (lines 121-123) and on the full-load path (lines 125, 132)
HitProgress == <<>>
LoadStartProgress == 0
LoadEndProgress == 100

\* a store that keeps a model already in the slot
StoreModelKeepOld(model) == IF loaded_model # NoModel THEN loaded_model ELSE model

\* line 129: what the slot holds after the store of a freshly loaded model
StoreModel(model) == model

\* ------------------------------------------------------------- signals
Progress(p) == [sig |-> "progressUpdated", pct |-> p, ok |-> TRUE, msg |-> ""]
DownloadFinished(success, error) ==
    [sig |-> "downloadFinished", pct |-> -1, ok |-> success, msg |-> error]
TranscriptionFinished(text) ==
    [sig |-> "transcriptionFinished", pct |-> -1, ok |-> TRUE, msg |-> text]
ErrorOccurred(error) ==
    [sig |-> "errorOccurred", pct |-> -1, ok |-> FALSE, msg |-> error]

IsTerminal(e) == e.sig # "progressUpdated"

\* ------------------------------------------------------------- threads
LoadPcs == {"load_chk2", "load_ret", "load_engine", "load_store1", "load_store2"}

InLoad(t) == threads[t].pc \in LoadPcs

isRunning(t) == threads[t].pc # "finished"

NewThread(kind, model_name, path) ==
    [kind |-> kind, model_name |-> model_name, file_path |-> path,
     pc |-> "start", is_interrupted |-> FALSE, model |-> NoModel,
     events |-> <<>>,
     \* history of the run, not program state
     snap |-> [lm |-> NoModel, cur |-> None], path |-> "none", engine |-> FALSE,
     callbacks |-> <<>>, int_when |-> "none", recog |-> "none"]

ThreadIds == 1..Len(threads)

\* the thread puts a signal on the GUI thread's queue (queued connection)
Emit(t, e, nextpc) ==
    /\ Len(mainQueue) < MaxQueue
    /\ mainQueue' = Append(mainQueue, [src |-> t, ev |-> e])
    /\ threads' = [threads EXCEPT ![t].events = Append(@, e), ![t].pc = nextpc]

\* the queue entries of a list of progress values reported by thread t
RECURSIVE Signals(_, _)
Signals(t, ps) ==
    IF ps = <<>> THEN <<>>
    ELSE <<[src |-> t, ev |-> Progress(Head(ps))]>> \o Signals(t, Tail(ps))

RECURSIVE EventsOf(_)
EventsOf(q) == IF q = <<>> THEN <<>> ELSE <<Head(q).ev>> \o EventsOf(Tail(q))

\* the thread has emitted its model-ready milestone (line 189)
ReadyEmitted(t) == threads[t].pc \in {"transcribe", "emit_fin"} \/ threads[t].recog # "none"

\* line 184: the value of self._is_interrupted the run reads
InterruptSeen(t) == threads[t].is_interrupted

\* ------------------------------------------------------------- system probe
\* the machine the program runs on, as psutil and torch report it
Machine == [probe_ok |-> TRUE, cuda |-> FALSE, vram |-> 0, ram_avail |-> 4]

\* check_recommended_model, lines 44-62
check_recommended_model(m) ==
    IF ~m.probe_ok THEN "tiny"
    ELSE IF m.cuda
         THEN IF m.vram >= 8 THEN "large"
              ELSE IF m.vram >= 6 THEN "medium"
              ELSE IF m.vram >= 4 THEN "small"
              ELSE "base"
         ELSE IF m.ram_avail >= 8 THEN "small" ELSE "base"

recommended == check_recommended_model(Machine)

\* ------------------------------------------------------------- normalizer
audio_ext == {".mp3", ".wav", ".m4a", ".flac"}
video_ext == {".mp4", ".avi", ".mov", ".mkv"}

\* str.lower() on the extensions the inputs use
lowerIdentity(ext) == ext

lower(ext) ==
    CASE ext = ".MP3" -> ".mp3"
      [] ext = ".WAV" -> ".wav"
      [] ext = ".M4A" -> ".m4a"
      [] ext = ".Flac" -> ".flac"
      [] ext = ".Mp4" -> ".mp4"
      [] ext = ".AVI" -> ".avi"
      [] OTHER -> ext

\* files the user can pick in the dialog
Inputs == {[stem |-> "a", ext |-> e] : e \in {".wav", ".mp4", ".xyz"}}

\* paths convert_file_if_needed can be called with: every listed extension,
\* some of them in other letter case, and extensions of neither list
AudioAnyCase == audio_ext \cup {".MP3", ".WAV", ".M4A", ".Flac"}
VideoAnyCase == video_ext \cup {".Mp4", ".AVI"}
NormExts == AudioAnyCase \cup VideoAnyCase \cup {".xyz", ".txt", ""}
NormInputs == {[stem |-> st, ext |-> e] : st \in {"a", "b"}, e \in NormExts}

\* convert_file_if_needed(file_path) in an environment where ffmpeg is or is
\* not on the PATH and where the ffmpeg run exits with 0 or not
convert_file_unchecked(path, ffmpeg, exit_ok) ==
    IF lower(path.ext) \in audio_ext
    THEN [out |-> "return", path |-> path, ran |-> FALSE]
    ELSE IF lower(path.ext) \in video_ext
         THEN IF ffmpeg /\ exit_ok
              THEN [out |-> "return", path |-> [stem |-> path.stem, ext |-> ".wav"],
                    ran |-> TRUE]
              ELSE [out |-> "return", path |-> NoPath, ran |-> TRUE]
    ELSE [out |-> "return", path |-> NoPath, ran |-> FALSE]

convert_file_if_needed(path, ffmpeg, exit_ok) ==
    IF ~ffmpeg THEN [out |-> "FileNotFoundError", path |-> NoPath, ran |-> FALSE]
    ELSE IF lower(path.ext) \in audio_ext
         THEN [out |-> "return", path |-> path, ran |-> FALSE]
    ELSE IF lower(path.ext) \in video_ext
         THEN IF exit_ok
              THEN [out |-> "return", path |-> [stem |-> path.stem, ext |-> ".wav"],
                    ran |-> TRUE]
              ELSE [out |-> "return", path |-> NoPath, ran |-> TRUE]
    ELSE [out |-> "return", path |-> NoPath, ran |-> FALSE]

\* the call convert_file_if_needed(picked) in the given environment, with what
\* it gave back
Call(picked, ffmpeg, exit_ok) ==
    LET r == convert_file_if_needed(picked, ffmpeg, exit_ok) IN
    [picked |-> picked, ffmpeg |-> ffmpeg, exit_ok |-> exit_ok,
     out |-> r.out, path |-> r.path, ran |-> r.ran]

\* line 363, "if converted_file": the call returned a path
Converted(r) == r.out = "return" /\ r.path # NoPath

\* what the caller receives: the exception raised or the value returned
Visible(r) == [out |-> r.out, path |-> r.path]

\* no call of convert_file_if_needed yet
NoCall == [picked |-> NoPath, ffmpeg |-> TRUE, exit_ok |-> TRUE,
           out |-> "none", path |-> NoPath, ran |-> FALSE]

\* ------------------------------------------------------------- MainWindow
\* setup_model_lists: both combo boxes are cleared and refilled; a refilled
\* combo box shows its first item, the downloaded one the recommended model
\* when it is there
AvailableItems(D) == FilterSeq(ModelSeq, Models \ D)
DownloadedItems(D) == FilterSeq(ModelSeq, D)

setup_model_lists(D) ==
    /\ combo_available' = AvailableItems(D)
    /\ available_index' = IF AvailableItems(D) = <<>> THEN 0 ELSE 1
    /\ combo_downloaded' = DownloadedItems(D)
    /\ downloaded_index' =
         IF recommended \in Range(DownloadedItems(D))
         THEN IndexOf(DownloadedItems(D), recommended)
         ELSE IF DownloadedItems(D) = <<>> THEN 0 ELSE 1

\* the user picks another entry of a combo box
select_available(i) ==
    /\ i \in 1..Len(combo_available)
    /\ i # available_index
    /\ available_index' = i
    /\ UNCHANGED <<cacheVars, downloaded, file_path, downloader_thread,
                   transcription_thread, btn_download, combo_available,
                   combo_downloaded, downloaded_index, threads,
                   mainQueue, raced, watchVars, last_convert>>

select_downloaded(i) ==
    /\ i \in 1..Len(combo_downloaded)
    /\ i # downloaded_index
    /\ downloaded_index' = i
    /\ UNCHANGED <<cacheVars, downloaded, file_path, downloader_thread,
                   transcription_thread, btn_download, combo_available,
                   available_index, combo_downloaded, threads,
                   mainQueue, raced, watchVars, last_convert>>

\* the model the finished-download slot marks (line 340)
DownloadedName(t) == currentText(combo_available, available_index)

\* whether start_transcription may create a thread (lines 375-380)
MayTranscribeAnyFile == Len(combo_downloaded) # 0

MayTranscribe == file_path # NoPath /\ Len(combo_downloaded) # 0

download_model ==
    /\ btn_download
    /\ Len(threads) < MaxJobs
    /\ IF Len(combo_available) = 0
       THEN UNCHANGED <<threads, downloader_thread, btn_download>>
       ELSE /\ btn_download' = FALSE
            /\ threads' = Append(threads,
                 NewThread("download",
                           currentText(combo_available, available_index), NoPath))
            /\ downloader_thread' = Len(threads) + 1
    /\ UNCHANGED <<cacheVars, downloaded, file_path, transcription_thread,
                   combo_available, available_index, combo_downloaded,
                   downloaded_index, mainQueue, raced, watchVars, last_convert>>

\* lines 363-364: self.file_path after the call
SelectedPathAlways(r) == r.path

SelectedPath(r) == IF Converted(r) THEN r.path ELSE file_path

\* choose_file with the dialog offering the files of S; a cancelled dialog
\* (line 355) changes nothing.  With log the call is recorded in last_convert.
select_file(S, log) ==
    \E picked \in S, ffmpeg \in BOOLEAN :
      \E exit_ok \in IF convert_file_if_needed(picked, ffmpeg, TRUE).ran
                      THEN BOOLEAN ELSE {TRUE} :
        LET r == Call(picked, ffmpeg, exit_ok) IN
        /\ file_path' = SelectedPath(r)
        /\ last_convert' = IF log THEN r ELSE last_convert
        /\ UNCHANGED <<cacheVars, downloaded, downloader_thread,
                       transcription_thread, btn_download, combo_available,
                       available_index, combo_downloaded, downloaded_index,
                       threads, mainQueue, raced, watchVars>>

choose_file == select_file(Inputs, FALSE)

choose_file_logged == select_file(NormInputs, TRUE)

start_transcription ==
    /\ Len(threads) < MaxJobs
    /\ IF MayTranscribe
       THEN /\ threads' = Append(threads,
                 NewThread("transcribe",
                           currentText(combo_downloaded, downloaded_index),
                           file_path))
            /\ transcription_thread' = Len(threads) + 1
       ELSE UNCHANGED <<threads, transcription_thread>>
    /\ UNCHANGED <<cacheVars, downloaded, file_path, downloader_thread,
                   btn_download, combo_available, available_index,
                   combo_downloaded, downloaded_index, mainQueue,
                   raced, watchVars, last_convert>>

\* TranscriptionThread.interrupt (line 202); int_when keeps, as history,
\* whether the first call came before or after the model-ready milestone
interrupt(t) ==
    [threads EXCEPT ![t].is_interrupted = TRUE,
                    ![t].int_when = IF @ # "none" THEN @
                                    ELSE IF ReadyEmitted(t) THEN "after50"
                                    ELSE "before50"]

cancel_transcription ==
    /\ IF transcription_thread # 0 /\ isRunning(transcription_thread)
       THEN threads' = interrupt(transcription_thread)
       ELSE UNCHANGED threads
    /\ UNCHANGED <<cacheVars, guiVars, mainQueue, raced, watchVars, last_convert>>

\* ------------------------------------------------------------- slots
\* lines 332 and 401: self.last_progress_update = time.time()
refresh_progress ==
    /\ last_progress_update' = now
    /\ advisories' = 0
    /\ UNCHANGED <<now, idle_advisory>>

Deliverable(sig, kind) ==
    /\ mainQueue # <<>>
    /\ Head(mainQueue).ev.sig = sig
    /\ threads[Head(mainQueue).src].kind = kind

on_download_progress ==
    /\ Deliverable("progressUpdated", "download")
    /\ mainQueue' = Tail(mainQueue)
    /\ refresh_progress
    /\ UNCHANGED <<cacheVars, guiVars, threads, raced, last_convert>>

on_download_finished ==
    /\ Deliverable("downloadFinished", "download")
    /\ mainQueue' = Tail(mainQueue)
    /\ LET D == IF Head(mainQueue).ev.ok
                THEN mark_model_as_downloaded(DownloadedName(Head(mainQueue).src))
                ELSE downloaded
       IN /\ downloaded' = D
          /\ setup_model_lists(D)
    /\ btn_download' = TRUE
    /\ UNCHANGED <<cacheVars, file_path, downloader_thread,
                   transcription_thread, threads, raced, watchVars, last_convert>>

on_transcription_progress ==
    /\ Deliverable("progressUpdated", "transcribe")
    /\ mainQueue' = Tail(mainQueue)
    /\ refresh_progress
    /\ UNCHANGED <<cacheVars, guiVars, threads, raced, last_convert>>

on_transcription_finished ==
    /\ Deliverable("transcriptionFinished", "transcribe")
    /\ mainQueue' = Tail(mainQueue)
    /\ UNCHANGED <<cacheVars, guiVars, threads, raced, watchVars, last_convert>>

on_transcription_error ==
    /\ Deliverable("errorOccurred", "transcribe")
    /\ mainQueue' = Tail(mainQueue)
    /\ UNCHANGED <<cacheVars, guiVars, threads, raced, watchVars, last_convert>>


\* ------------------------------------------------------------- watchdog
\* line 309: the timer period, in seconds; line 313: the threshold
TimerPeriod == 1
StallThreshold == 20

\* a thread is running or one of its signals is still to be handled
JobActive ==
    \E t \in ThreadIds :
      isRunning(t) \/ \E i \in 1..Len(mainQueue) : mainQueue[i].src = t

\* line 313: elapsed > 20, with elapsed taken at time `at`
Stuck(at) == at - last_progress_update > StallThreshold

\* start_monitor and check_progress_stuck: a period after the last timeout the
\* timer fires and the slot compares the clock with last_progress_update
check_progress_stuck ==
    /\ now + TimerPeriod <= MaxTime
    /\ now' = now + TimerPeriod
    /\ IF Stuck(now + TimerPeriod)
       THEN /\ advisories' = advisories + 1
            /\ idle_advisory' = (idle_advisory \/ ~JobActive)
       ELSE UNCHANGED <<advisories, idle_advisory>>
    /\ UNCHANGED <<cacheVars, guiVars, threads, mainQueue, raced,
                   last_progress_update, last_convert>>

\* ------------------------------------------------------------- workers
\* lines 155 and 180: progressUpdated.emit(0)
run_start(t) ==
    /\ threads[t].pc = "start"
    /\ Emit(t, Progress(0), "load_chk")
    /\ UNCHANGED <<cacheVars, guiVars, raced, watchVars, last_convert>>

\* some other thread is inside load_model
OtherInLoad(t) == \E u \in ThreadIds : u # t /\ InLoad(u)

\* line 121, first operand: self.loaded_model is read; the call has begun.
\* With an empty slot the load starts and reports it (line 125).
load_model_check(t) ==
    /\ threads[t].pc = "load_chk"
    /\ IF CacheSlotFull
       THEN /\ threads' = [threads EXCEPT
                 ![t].pc = "load_chk2",
                 ![t].snap = [lm |-> loaded_model, cur |-> current_model_name]]
            /\ UNCHANGED mainQueue
       ELSE /\ Len(mainQueue) < MaxQueue
            /\ mainQueue' = Append(mainQueue,
                                   [src |-> t, ev |-> Progress(LoadStartProgress)])
            /\ threads' = [threads EXCEPT
                 ![t].pc = "load_engine",
                 ![t].events = Append(@, Progress(LoadStartProgress)),
                 ![t].callbacks = <<LoadStartProgress>>,
                 ![t].snap = [lm |-> loaded_model, cur |-> current_model_name],
                 ![t].path = "miss"]
    /\ raced' = (raced \/ OtherInLoad(t))
    /\ UNCHANGED <<cacheVars, guiVars, watchVars, last_convert>>

\* line 121, second operand: self.current_model_name is read; with another
\* name the load starts and reports it (line 125)
load_model_check_name(t) ==
    /\ threads[t].pc = "load_chk2"
    /\ IF CacheNameMatches(threads[t].model_name)
       THEN /\ threads' = [threads EXCEPT ![t].pc = "load_ret"]
            /\ UNCHANGED mainQueue
       ELSE /\ Len(mainQueue) < MaxQueue
            /\ mainQueue' = Append(mainQueue,
                                   [src |-> t, ev |-> Progress(LoadStartProgress)])
            /\ threads' = [threads EXCEPT
                 ![t].pc = "load_engine",
                 ![t].events = Append(@, Progress(LoadStartProgress)),
                 ![t].callbacks = <<LoadStartProgress>>,
                 ![t].path = "miss"]
    /\ UNCHANGED <<cacheVars, guiVars, raced, watchVars, last_convert>>

\* line 123: return self.loaded_model, read again
load_model_hit(t) ==
    /\ threads[t].pc = "load_ret"
    /\ Len(mainQueue) + Len(HitProgress) <= MaxQueue
    /\ mainQueue' = mainQueue \o Signals(t, HitProgress)
    /\ threads' = [threads EXCEPT
         ![t].pc = "after_load",
         ![t].model = loaded_model,
         ![t].events = @ \o EventsOf(Signals(t, HitProgress)),
         ![t].callbacks = HitProgress,
         ![t].path = "hit"]
    /\ UNCHANGED <<cacheVars, guiVars, raced, watchVars, last_convert>>

\* line 128: whisper.load_model returns a new model
load_model_engine(t) ==
    /\ threads[t].pc = "load_engine"
    /\ engineLoads' = engineLoads + 1
    /\ threads' = [threads EXCEPT
         ![t].pc = "load_store1",
         ![t].engine = TRUE,
         ![t].model = [w |-> threads[t].model_name, id |-> engineLoads + 1]]
    /\ UNCHANGED <<loaded_model, current_model_name, guiVars, mainQueue, raced, watchVars, last_convert>>

\* the failure signal of a run whose load raised (lines 161, 199)
LoadFailedNoMessage(t) ==
    IF threads[t].kind = "download"
    THEN DownloadFinished(FALSE, "")
    ELSE ErrorOccurred("")

LoadFailed(t) ==
    IF threads[t].kind = "download"
    THEN DownloadFinished(FALSE, MsgLoadError)
    ELSE ErrorOccurred(MsgLoadError)

\* line 128: whisper.load_model raises; the except clause of the run that
\* called load_model emits the failure (lines 159-161, 197-199)
load_model_raise(t) ==
    /\ threads[t].pc = "load_engine"
    /\ Len(mainQueue) < MaxQueue
    /\ mainQueue' = Append(mainQueue, [src |-> t, ev |-> LoadFailed(t)])
    /\ threads' = [threads EXCEPT ![t].pc = "finished", ![t].engine = TRUE,
                                  ![t].events = Append(@, LoadFailed(t))]
    /\ UNCHANGED <<cacheVars, guiVars, raced, watchVars, last_convert>>

\* line 129: self.loaded_model = model
load_model_store(t) ==
    /\ threads[t].pc = "load_store1"
    /\ loaded_model' = StoreModel(threads[t].model)
    /\ threads' = [threads EXCEPT ![t].pc = "load_store2"]
    /\ UNCHANGED <<current_model_name, engineLoads, guiVars, mainQueue, raced, watchVars, last_convert>>

\* lines 130-134: self.current_model_name = model_name, progress_callback(100)
load_model_store_name(t) ==
    /\ threads[t].pc = "load_store2"
    /\ current_model_name' = threads[t].model_name
    /\ Len(mainQueue) < MaxQueue
    /\ mainQueue' = Append(mainQueue, [src |-> t, ev |-> Progress(LoadEndProgress)])
    /\ threads' = [threads EXCEPT
         ![t].pc = "after_load",
         ![t].events = Append(@, Progress(LoadEndProgress)),
         ![t].callbacks = Append(@, LoadEndProgress)]
    /\ UNCHANGED <<loaded_model, engineLoads, guiVars, raced, watchVars, last_convert>>

\* DownloaderThread.run, line 158
download_emit_finished(t) ==
    /\ threads[t].kind = "download"
    /\ threads[t].pc = "after_load"
    /\ Emit(t, DownloadFinished(TRUE, ""), "finished")
    /\ UNCHANGED <<cacheVars, guiVars, raced, watchVars, last_convert>>

\* a run that goes on after the interruption error, as if line 187 were missing
AfterInterruptedNoReturn == "emit50"

\* where the run goes after the interruption error of line 185 (return, 187)
AfterInterrupted == "finished"

\* TranscriptionThread.run, lines 183-184: emit(100), then the test of
\* self._is_interrupted
transcribe_check_interrupted(t) ==
    /\ threads[t].kind = "transcribe"
    /\ threads[t].pc = "after_load"
    /\ Emit(t, Progress(100),
            IF InterruptSeen(t) THEN "emit_int" ELSE "emit50")
    /\ UNCHANGED <<cacheVars, guiVars, raced, watchVars, last_convert>>

\* lines 185-187
transcribe_emit_interrupted(t) ==
    /\ threads[t].kind = "transcribe"
    /\ threads[t].pc = "emit_int"
    /\ Emit(t, ErrorOccurred(MsgInterrupted), AfterInterrupted)
    /\ UNCHANGED <<cacheVars, guiVars, raced, watchVars, last_convert>>

\* line 189
transcribe_emit_ready(t) ==
    /\ threads[t].kind = "transcribe"
    /\ threads[t].pc = "emit50"
    /\ Emit(t, Progress(50), "transcribe")
    /\ UNCHANGED <<cacheVars, guiVars, raced, watchVars, last_convert>>

\* lines 192-194: model.transcribe returns a result, emit(100)
transcribe_call(t) ==
    /\ threads[t].kind = "transcribe"
    /\ threads[t].pc = "transcribe"
    /\ Len(mainQueue) < MaxQueue
    /\ mainQueue' = Append(mainQueue, [src |-> t, ev |-> Progress(100)])
    /\ threads' = [threads EXCEPT ![t].pc = "emit_fin", ![t].recog = "ok",
                                  ![t].events = Append(@, Progress(100))]
    /\ UNCHANGED <<cacheVars, guiVars, raced, watchVars, last_convert>>

\* line 192 raises; lines 197-199
transcribe_raise(t) ==
    /\ threads[t].kind = "transcribe"
    /\ threads[t].pc = "transcribe"
    /\ Len(mainQueue) < MaxQueue
    /\ mainQueue' = Append(mainQueue,
                           [src |-> t, ev |-> ErrorOccurred(MsgTranscribeError)])
    /\ threads' = [threads EXCEPT ![t].pc = "finished", ![t].recog = "raised",
                     ![t].events = Append(@, ErrorOccurred(MsgTranscribeError))]
    /\ UNCHANGED <<cacheVars, guiVars, raced, watchVars, last_convert>>

\* a run that tests the interruption flag again after the recognizer returned
ResultEventChecked(t) ==
    IF threads[t].is_interrupted
    THEN ErrorOccurred(MsgInterrupted)
    ELSE TranscriptionFinished(TextResult)

\* the terminal signal of a run whose recognizer returned (line 196)
ResultEvent(t) == TranscriptionFinished(TextResult)

transcribe_emit_finished(t) ==
    /\ threads[t].kind = "transcribe"
    /\ threads[t].pc = "emit_fin"
    /\ Emit(t, ResultEvent(t), "finished")
    /\ UNCHANGED <<cacheVars, guiVars, raced, watchVars, last_convert>>


Init ==
    /\ loaded_model = NoModel
    /\ current_model_name = None
    /\ downloaded \in SUBSET Models
    /\ file_path = NoPath
    /\ downloader_thread = 0
    /\ transcription_thread = 0
    /\ btn_download = TRUE
    /\ combo_available = AvailableItems(downloaded)
    /\ available_index = (IF AvailableItems(downloaded) = <<>> THEN 0 ELSE 1)
    /\ combo_downloaded = DownloadedItems(downloaded)
    /\ downloaded_index =
         (IF recommended \in Range(DownloadedItems(downloaded))
          THEN IndexOf(DownloadedItems(downloaded), recommended)
          ELSE IF DownloadedItems(downloaded) = <<>> THEN 0 ELSE 1)
    /\ threads = <<>>
    /\ mainQueue = <<>>
    /\ engineLoads = 0
    /\ raced = FALSE
    /\ now = 0
    /\ last_progress_update = 0
    /\ advisories = 0
    /\ idle_advisory = FALSE
    /\ last_convert = NoCall

Next ==
    \/ \E i \in 1..NumModels : select_available(i)
    \/ \E i \in 1..NumModels : select_downloaded(i)
    \/ download_model
    \/ choose_file
    \/ start_transcription
    \/ cancel_transcription
    \/ on_download_progress
    \/ on_download_finished
    \/ on_transcription_progress
    \/ on_transcription_finished
    \/ on_transcription_error
    \/ \E t \in ThreadIds : run_start(t)
    \/ \E t \in ThreadIds : load_model_check(t)
    \/ \E t \in ThreadIds : load_model_check_name(t)
    \/ \E t \in ThreadIds : load_model_hit(t)
    \/ \E t \in ThreadIds : load_model_engine(t)
    \/ \E t \in ThreadIds : load_model_raise(t)
    \/ \E t \in ThreadIds : load_model_store(t)
    \/ \E t \in ThreadIds : load_model_store_name(t)
    \/ \E t \in ThreadIds : download_emit_finished(t)
    \/ \E t \in ThreadIds : transcribe_check_interrupted(t)
    \/ \E t \in ThreadIds : transcribe_emit_interrupted(t)
    \/ \E t \in ThreadIds : transcribe_emit_ready(t)
    \/ \E t \in ThreadIds : transcribe_call(t)
    \/ \E t \in ThreadIds : transcribe_raise(t)
    \/ \E t \in ThreadIds : transcribe_emit_finished(t)

Spec == Init /\ [][Next]_vars

\* the steps of one worker thread and of the GUI thread's event loop
Worker(t) ==
    /\ t \in ThreadIds
    /\ \/ run_start(t)
       \/ load_model_check(t)
       \/ load_model_check_name(t)
       \/ load_model_hit(t)
       \/ load_model_engine(t)
       \/ load_model_raise(t)
       \/ load_model_store(t)
       \/ load_model_store_name(t)
       \/ download_emit_finished(t)
       \/ transcribe_check_interrupted(t)
       \/ transcribe_emit_interrupted(t)
       \/ transcribe_emit_ready(t)
       \/ transcribe_call(t)
       \/ transcribe_raise(t)
       \/ transcribe_emit_finished(t)

Deliver ==
    \/ on_download_progress
    \/ on_download_finished
    \/ on_transcription_progress
    \/ on_transcription_finished
    \/ on_transcription_error

\* every started thread is scheduled, its blocking calls return or raise, and
\* the event loop keeps delivering queued signals
FairSpec ==
    /\ Spec
    /\ WF_vars(Deliver)
    /\ \A t \in 1..MaxJobs : WF_vars(Worker(t))

\* The watchdog next to one download into an empty cache: the timer, the first
\* click on the download button, the steps of that DownloaderThread and the
\* slots its signals reach.
WatchNext ==
    \/ check_progress_stuck
    \/ (threads = <<>> /\ download_model)
    \/ on_download_progress
    \/ on_download_finished
    \/ \E t \in ThreadIds : run_start(t)
    \/ \E t \in ThreadIds : load_model_check(t)
    \/ \E t \in ThreadIds : load_model_engine(t)
    \/ \E t \in ThreadIds : load_model_raise(t)
    \/ \E t \in ThreadIds : load_model_store(t)
    \/ \E t \in ThreadIds : load_model_store_name(t)
    \/ \E t \in ThreadIds : download_emit_finished(t)

WatchSpec == Init /\ [][WatchNext]_vars

\* File selection over every kind of input, next to one download into an
\* empty cache; each call of convert_file_if_needed is kept in last_convert.
NormNext ==
    \/ choose_file_logged
    \/ (threads = <<>> /\ download_model)
    \/ on_download_progress
    \/ on_download_finished
    \/ \E t \in ThreadIds : run_start(t)
    \/ \E t \in ThreadIds : load_model_check(t)
    \/ \E t \in ThreadIds : load_model_engine(t)
    \/ \E t \in ThreadIds : load_model_raise(t)
    \/ \E t \in ThreadIds : load_model_store(t)
    \/ \E t \in ThreadIds : load_model_store_name(t)
    \/ \E t \in ThreadIds : download_emit_finished(t)

NormSpec == Init /\ [][NormNext]_vars

\* ------------------------------------------------------------- properties
Last(s) == s[Len(s)]

Finished(t) == threads[t].pc = "finished"

\* the percentages of the progress events of a run, as emitted
ProgressIndices(t) ==
    {i \in 1..Len(threads[t].events) : threads[t].events[i].sig = "progressUpdated"}

\* the load_model call of the run has returned or raised
LoadDone(t) == threads[t].path # "none" /\ ~InLoad(t)

\* the run's terminal signal has been handled by the GUI thread
Handled(t) ==
    /\ Finished(t)
    /\ \A i \in 1..Len(mainQueue) : mainQueue[i].src # t

\* C1: within one run of a Download or Transcribe job no progress event
\* carries a smaller percentage than an earlier progress event of that run.
C1_ProgressNonDecreasing ==
    \A t \in ThreadIds :
      \A i, j \in ProgressIndices(t) :
        i < j => threads[t].events[i].pct <= threads[t].events[j].pct

\* C2: a run emits at most one terminal event, the terminal event is the last
\* event of the run, and a run that has ended has emitted exactly one, of the
\* kind its job has (downloadFinished, or transcriptionFinished/errorOccurred).
C2_OneTerminalLast ==
    \A t \in ThreadIds :
      LET ev == threads[t].events IN
      /\ \A i \in 1..Len(ev) : IsTerminal(ev[i]) => i = Len(ev)
      /\ Finished(t) <=> (ev # <<>> /\ IsTerminal(Last(ev)))
      /\ Finished(t) =>
           IF threads[t].kind = "download"
           THEN Last(ev).sig = "downloadFinished"
           ELSE Last(ev).sig \in {"transcriptionFinished", "errorOccurred"}

\* C2, in full: the above in every state, and every started run ends.
C2_ExactlyOneTerminal ==
    /\ []C2_OneTerminalLast
    /\ \A t \in 1..MaxJobs :
         (t \in ThreadIds) ~> (t \in ThreadIds /\ threads[t].pc = "finished")

C2_Witness ==
    \E t, u \in ThreadIds :
      /\ threads[t].kind = "transcribe" /\ Finished(t)
      /\ Last(threads[t].events) = ErrorOccurred(MsgInterrupted)
      /\ threads[u].kind = "download" /\ Finished(u)
      /\ Last(threads[u].events) = DownloadFinished(TRUE, "")

\* C3: once a Download job for X has succeeded and its success event has been
\* handled, X is marked as downloaded.
C3_DownloadedAfterSuccess ==
    \A t \in ThreadIds :
      (/\ threads[t].kind = "download"
       /\ Handled(t)
       /\ Last(threads[t].events).ok)
      => is_model_downloaded(threads[t].model_name)

\* C4: a Transcribe job whose load succeeds and that is interrupted before it
\* emitted its 50% milestone never calls the recognizer and ends with the
\* interruption failure.
C4_InterruptBeforeReady ==
    \A t \in ThreadIds :
      (/\ threads[t].kind = "transcribe"
       /\ threads[t].int_when = "before50"
       /\ LoadDone(t)
       /\ threads[t].model # NoModel)
      => /\ threads[t].recog = "none"
         /\ Finished(t) => Last(threads[t].events) = ErrorOccurred(MsgInterrupted)

\* C5: a Transcribe job first interrupted after it emitted its 50% milestone
\* ends as the recognizer decides: success with the recognizer's text, or
\* failure with the recognizer's error, never the interruption failure.
C5_InterruptAfterReadyIgnored ==
    \A t \in ThreadIds :
      (threads[t].kind = "transcribe" /\ threads[t].int_when = "after50"
          /\ Finished(t))
      => Last(threads[t].events) =
           IF threads[t].recog = "ok"
           THEN TranscriptionFinished(TextResult)
           ELSE ErrorOccurred(MsgTranscribeError)

C5_Witness ==
    \E t \in ThreadIds :
      /\ threads[t].int_when = "after50"
      /\ threads[t].is_interrupted
      /\ Finished(t)
      /\ threads[t].recog = "ok"

\* C6: at most one Download job and at most one Transcribe job is running.
C6_OneJobPerKind ==
    \A k \in {"download", "transcribe"} :
      Cardinality({t \in ThreadIds : threads[t].kind = k /\ isRunning(t)}) <= 1

\* C7: at most one call of load_model is in flight.
C7_OneLoadInFlight ==
    Cardinality({t \in ThreadIds : InLoad(t)}) <= 1

\* C8: while load calls have not overlapped, a finished load(X) has called the
\* engine's load exactly when, at the call, the slot was empty or held another
\* identifier than X; a call that found X loaded returned the stored model,
\* which is a model of X.
C8_WeightLoadIffMiss ==
    ~raced =>
      \A t \in ThreadIds :
        LoadDone(t) =>
          LET cached == threads[t].snap.lm # NoModel
                          /\ threads[t].snap.cur = threads[t].model_name
          IN /\ threads[t].engine <=> ~cached
             /\ cached => /\ threads[t].model = threads[t].snap.lm
                          /\ threads[t].model.w = threads[t].model_name

C8_Witness ==
    /\ ~raced
    /\ \E t, u \in ThreadIds :
         /\ u < t
         /\ LoadDone(u) /\ threads[u].engine
         /\ LoadDone(t) /\ ~threads[t].engine
         /\ threads[t].model_name = threads[u].model_name
         /\ threads[t].model = threads[u].model
         /\ engineLoads = 1

\* C9 as stated: a load that finds its model cached invokes the progress
\* callback exactly twice, with 0 and then 100.
C9_HitReportsTwice ==
    \A t \in ThreadIds :
      (LoadDone(t) /\ threads[t].path = "hit") => threads[t].callbacks = <<0, 100>>

\* C9 amended: a load that finds its model cached does not invoke the progress
\* callback; when it returns, the run has emitted only its own initial 0.
C9_HitReportsNothing ==
    \A t \in ThreadIds :
      (LoadDone(t) /\ threads[t].path = "hit") =>
        /\ threads[t].callbacks = <<>>
        /\ threads[t].pc = "after_load" => threads[t].events = <<Progress(0)>>

C9_Witness ==
    \E t \in ThreadIds :
      /\ threads[t].path = "hit"
      /\ threads[t].pc = "after_load"
      /\ threads[t].model # NoModel

\* C10: the cache has one slot; while load calls have not overlapped and no
\* store is under way, the slot holds the model loaded last and the identifier
\* field names it, so no model loaded earlier is held by the cache.
Storing == \E t \in ThreadIds : threads[t].pc \in {"load_store1", "load_store2"}

C10_SingleSlot ==
    (~raced /\ ~Storing) =>
      IF engineLoads = 0
      THEN loaded_model = NoModel /\ current_model_name = None
      ELSE /\ loaded_model.id = engineLoads
           /\ loaded_model.w = current_model_name

C10_Witness ==
    /\ ~raced /\ ~Storing
    /\ engineLoads = 2
    /\ loaded_model.id = 2
    /\ \E t \in ThreadIds :
         /\ threads[t].model.id = 1
         /\ threads[t].model.w # loaded_model.w

\* C11: while a job is running, at most one stall advisory is shown after its
\* last handled progress event (one advisory per crossing of the threshold; the
\* ticks that follow show none until a new progress event refreshes the
\* timestamp).
C11_OneAdvisoryPerCrossing ==
    (\E t \in ThreadIds :
        /\ isRunning(t)
        /\ threads[t].events # <<>>
        /\ \A i \in 1..Len(mainQueue) : mainQueue[i].src # t)
    => advisories <= 1

\* C12: no stall advisory is shown by a tick at which no job is active.
C12_NoAdvisoryWhenIdle == ~idle_advisory

\* C13: a call with a video extension made while ffmpeg is not on the PATH
\* raises FileNotFoundError and never runs ffmpeg.
C13_MissingToolBeforeTranscode ==
    (/\ last_convert.out # "none"
     /\ last_convert.picked.ext \in VideoAnyCase
     /\ ~last_convert.ffmpeg)
    => (last_convert.out = "FileNotFoundError" /\ ~last_convert.ran)

C13_Witness ==
    /\ last_convert.picked.ext \in {".mp4", ".Mp4"}
    /\ ~last_convert.ffmpeg
    /\ last_convert.out = "FileNotFoundError"

Cause(c) ==
    IF c.out = "none" \/ Converted(c) THEN "none"
    ELSE IF ~c.ffmpeg THEN "ExternalToolMissing"
    ELSE IF c.ran THEN "TranscodeFailed"
    ELSE "UnsupportedFormat"

\* C15: two calls that fail for different causes give the caller different
\* things (a different exception or a different return value).
C15_FailuresDistinguishable ==
    \A picked \in NormInputs, ffmpeg \in BOOLEAN, exit_ok \in BOOLEAN :
      LET other == Call(picked, ffmpeg, exit_ok) IN
      (/\ Cause(last_convert) # "none"
       /\ Cause(other) # "none"
       /\ Cause(other) # Cause(last_convert))
      => Visible(other) # Visible(last_convert)

\* C16: a file selection whose convert_file_if_needed call fails leaves
\* file_path, the loaded model and its name as they were; file_path changes only
\* to the path a successful call returned.
C16_FailedSelectionKeepsState ==
    [][/\ (last_convert' # last_convert /\ ~Converted(last_convert'))
          => UNCHANGED <<file_path, loaded_model, current_model_name>>
       /\ file_path' # file_path
          => (Converted(last_convert') /\ file_path' = last_convert'.path)]_vars

C16_Witness ==
    /\ last_convert.out # "none"
    /\ ~Converted(last_convert)
    /\ file_path # NoPath
    /\ loaded_model # NoModel

\* the Download job t has emitted downloadFinished(True, "")
Succeeded(t) ==
    /\ threads[t].kind = "download"
    /\ threads[t].events # <<>>
    /\ Last(threads[t].events).sig = "downloadFinished"
    /\ Last(threads[t].events).ok

\* C17: a marker is created for X only when a Download job whose target was X
\* has succeeded; no marker is created for any other identifier.
C17_MarkerOnlyForSucceededTarget ==
    [][\A X \in downloaded' \ downloaded :
         \E t \in ThreadIds : Succeeded(t) /\ threads[t].model_name = X]_vars

\* C18: a Download job that emits success has emitted a 100% progress event
\* before it, on a full load and on a cache hit alike.
C18_SuccessAfterHundred ==
    \A t \in ThreadIds :
      Succeeded(t) =>
        \E i \in ProgressIndices(t) : threads[t].events[i].pct = 100

\* whisper.load_model raised in the run of t
LoadRaised(t) == threads[t].engine /\ threads[t].model = NoModel

\* the run of t has ended with its failure signal
Failed(t) ==
    /\ Finished(t)
    /\ threads[t].events # <<>>
    /\ \/ Last(threads[t].events).sig = "errorOccurred"
       \/ (Last(threads[t].events).sig = "downloadFinished"
           /\ ~Last(threads[t].events).ok)

\* the run of t has written loaded_model and current_model_name
HasStored(t) ==
    /\ threads[t].engine
    /\ threads[t].model # NoModel
    /\ threads[t].pc \notin {"load_store1", "load_store2"}

\* C19 as stated, last part: a job that ended in failure has not changed the
\* loaded model or its identifier.
C19_FailedJobKeepsCache ==
    \A t \in ThreadIds : Failed(t) => ~HasStored(t)

\* an exception of the load or of the recognizer ends the run with the failure
\* signal that carries its message, and a run that has ended has emitted a
\* terminal signal
C19_ExceptionsReported ==
    \A t \in ThreadIds :
      /\ LoadRaised(t) =>
            /\ Failed(t)
            /\ Last(threads[t].events).msg = MsgLoadError
            /\ Last(threads[t].events).sig =
                 (IF threads[t].kind = "download"
                  THEN "downloadFinished" ELSE "errorOccurred")
      /\ threads[t].recog = "raised" =>
            (Failed(t) /\ Last(threads[t].events) = ErrorOccurred(MsgTranscribeError))
      /\ Finished(t) =>
            (threads[t].events # <<>> /\ IsTerminal(Last(threads[t].events)))

\* C19 amended: exceptions are reported as above, and the loaded model and its
\* identifier are written only by the store steps of a run whose
\* whisper.load_model call returned a model; a run whose load raised writes
\* neither.
C19_FailuresCaughtLoadAtomic ==
    /\ []C19_ExceptionsReported
    /\ [](\A t \in ThreadIds : LoadRaised(t) => ~HasStored(t))
    /\ [][<<loaded_model, current_model_name>>' # <<loaded_model, current_model_name>>
          => \E t \in ThreadIds :
               /\ threads[t].pc \in {"load_store1", "load_store2"}
               /\ threads'[t].pc # threads[t].pc
               /\ threads[t].model # NoModel
               /\ ~LoadRaised(t)]_vars

C19_Witness ==
    \E t, u \in ThreadIds :
      /\ LoadRaised(t) /\ Failed(t)
      /\ threads[u].recog = "raised" /\ Failed(u) /\ HasStored(u)

\* the paths a successful call of convert_file_if_needed returns
NormalizedPaths ==
    LET calls == {Call(picked, ffmpeg, exit_ok) :
                    picked \in Inputs, ffmpeg \in BOOLEAN, exit_ok \in BOOLEAN}
    IN {c.path : c \in {d \in calls : Converted(d)}}

\* C20: file_path is empty or a path a successful convert_file_if_needed call
\* returned; a step that starts a TranscriptionThread happens with such a path
\* in file_path and gives the thread that path and a model marked as
\* downloaded, so a transcription never starts while no file selection has
\* succeeded or no model is marked.
C20_TranscribeNeedsFileAndModel ==
    /\ [](file_path \in NormalizedPaths \cup {NoPath})
    /\ [](\A t \in ThreadIds :
            threads[t].kind = "transcribe" =>
              /\ threads[t].file_path \in NormalizedPaths
              /\ is_model_downloaded(threads[t].model_name))
    /\ [][Len(threads') > Len(threads) /\ Last(threads').kind = "transcribe"
          => /\ file_path \in NormalizedPaths
             /\ Last(threads').file_path = file_path
             /\ is_model_downloaded(Last(threads').model_name)]_vars

C20_Witness ==
    \E t \in ThreadIds :
      /\ threads[t].kind = "transcribe"
      /\ threads[t].file_path = [stem |-> "a", ext |-> ".wav"]
      /\ threads[t].model_name \in downloaded
      /\ downloaded # Models

\* C21: whenever no store of load_model is half-done and both fields are set,
\* current_model_name names the model in loaded_model; every load_model(X) that
\* has returned gave a model of X, and every recognizer a TranscriptionThread
\* for X has run was a model of X.
C21_NameMatchesSlot ==
    /\ (~Storing /\ loaded_model # NoModel /\ current_model_name # None)
         => loaded_model.w = current_model_name
    /\ \A t \in ThreadIds :
         /\ (LoadDone(t) /\ threads[t].model # NoModel)
              => threads[t].model.w = threads[t].model_name
         /\ threads[t].recog # "none"
              => threads[t].model.w = threads[t].model_name

====
